---- MODULE Spec2Model ----
(***************************************************************************)
(* create-bolt-plugin: the `create` command of src/index.ts.               *)
(*                                                                         *)
(* One run of the command: inquirer asks the questions of the list one at  *)
(* a time, then createPluginFiles performs its awaited fs-extra calls in   *)
(* program order.  A JavaScript object is a function from its own keys to  *)
(* values; reading a property gives Some(v) or Undefined.  A path is the   *)
(* sequence of its segments below process.cwd().  A generated text is the  *)
(* structure its template produces (imports, members, argv of a script).   *)
(*                                                                         *)
(* Environment: the run targets a fresh directory (dirs and files start    *)
(* empty) and a failing fs-extra call rejects without touching the disk.   *)
(***************************************************************************)
EXTENDS Naturals, Sequences, FiniteSets, TLC

VARIABLES phase, qi, asked, answers, lastError, cancelled,
          pc, inflight, log, dirs, files

vars == <<phase, qi, asked, answers, lastError, cancelled,
          pc, inflight, log, dirs, files>>

(***************************************************************************)
(* Bounds of the model.                                                    *)
(***************************************************************************)
MaxNameLen == 2

(***************************************************************************)
(* JavaScript values.                                                      *)
(***************************************************************************)
Undefined == <<>>

Some(v) == <<v>>

Get(obj, k) == IF k \in DOMAIN obj THEN Some(obj[k]) ELSE Undefined

IsTrue(x) == x = Some(TRUE)

EmptyObject == [k \in {} |-> Undefined]

\* JSON.stringify: a property whose value is undefined is left out.
JSONStringify(obj) ==
    [k \in {j \in DOMAIN obj : obj[j] # Undefined} |-> obj[k][1]]

(***************************************************************************)
(* The question list handed to inquirer.prompt.                            *)
(***************************************************************************)
Questions == <<"name", "type", "slots", "middlewarePoints", "typescript">>

TypeChoices == {"ui", "middleware", "hybrid"}

SlotChoices == {"app-header", "workbench-healder", "settings-tab"}

MiddlewareChoices == {"beforeUserInput", "afterUserInput",
                      "beforeAssistantOutput", "afterAssistantOutput"}

LowerDigitDash ==
    {"a", "b", "c", "d", "e", "f", "g", "h", "i", "j", "k", "l", "m",
     "n", "o", "p", "q", "r", "s", "t", "u", "v", "w", "x", "y", "z",
     "0", "1", "2", "3", "4", "5", "6", "7", "8", "9", "-"}

DefaultName == <<"m", "y", "-", "b", "o", "l", "t", "-",
                 "p", "l", "u", "g", "i", "n">>

NameErrorMessage ==
    "Name must contain only lowercase letters, numbers, and dashes"

\* What the user may type at the name question: a few characters, one of
\* them outside the accepted class.
NameAlphabet == {"a", "-", "A"}

NameInputs == UNION {[1..n -> NameAlphabet] : n \in 0..MaxNameLen}

Inputs(q) ==
    CASE q = "name" -> NameInputs
      [] q = "type" -> TypeChoices
      [] q = "slots" -> SUBSET SlotChoices
      [] q = "middlewarePoints" -> SUBSET MiddlewareChoices
      [] q = "typescript" -> BOOLEAN

\* An empty input line takes the question's default.
Filter(q, input) ==
    IF q = "name" /\ input = <<>> THEN DefaultName ELSE input

\* /^[a-z0-9-]+$/
MatchesNameRegex(s) ==
    /\ Len(s) >= 1
    /\ \A i \in 1..Len(s) : s[i] \in LowerDigitDash

Validate(q, v) ==
    IF q = "name" THEN MatchesNameRegex(v) ELSE TRUE

WhenSwapped(q, a) ==
    CASE q = "slots" -> Get(a, "type") # Some("ui")
      [] q = "middlewarePoints" -> Get(a, "type") # Some("middleware")
      [] OTHER -> TRUE

When(q, a) ==
    CASE q = "slots" -> Get(a, "type") # Some("middleware")
      [] q = "middlewarePoints" -> Get(a, "type") # Some("ui")
      [] OTHER -> TRUE

NextQuestionDropLast(i, a) ==
    LET later == {j \in (i+1)..(Len(Questions)-1) : When(Questions[j], a)}
    IN IF later = {} THEN Len(Questions) + 1
       ELSE CHOOSE j \in later : \A m \in later : j <= m

\* inquirer walks the list in order and asks the first later question whose
\* `when` holds of the answers so far; past the end the prompt resolves.
NextQuestion(i, a) ==
    LET later == {j \in (i+1)..Len(Questions) : When(Questions[j], a)}
    IN IF later = {} THEN Len(Questions) + 1
       ELSE CHOOSE j \in later : \A m \in later : j <= m

(***************************************************************************)
(* Paths.                                                                  *)
(***************************************************************************)
Join(p, segs) == p \o segs

Parent(p) == SubSeq(p, 1, Len(p) - 1)

Prefixes(p) == {SubSeq(p, 1, n) : n \in 1..Len(p)}

PluginDir(a) == <<a["name"]>>

IndexFileAlwaysJsx(a) == "index.jsx"

IndexFile(a) ==
    IF IsTrue(Get(a, "typescript")) THEN "index.tsx" ELSE "index.jsx"

(***************************************************************************)
(* Generated contents.                                                     *)
(***************************************************************************)
ManifestSwapped(a) ==
    [id |-> Get(a, "name"),
     version |-> Some("1.0.0"),
     type |-> Get(a, "type"),
     entryPoint |-> Some("dist/index.js"),
     permissions |-> Some(<<>>),
     slots |-> Get(a, "middlewarePoints"),
     middlewarePoints |-> Get(a, "slots")]

Manifest(a) ==
    [id |-> Get(a, "name"),
     version |-> Some("1.0.0"),
     type |-> Get(a, "type"),
     entryPoint |-> Some("dist/index.js"),
     permissions |-> Some(<<>>),
     slots |-> Get(a, "slots"),
     middlewarePoints |-> Get(a, "middlewarePoints")]

PackJs == "packJs"

Readme(a) == [title |-> a["name"], body |-> "A plugin for bolt.diy"]

\* An esbuild command line is its argv; the source file is argv[2].
Esbuild(src, last) ==
    <<"esbuild", src, "--bundle", "--external:react", "--external:react-dom",
      "--outfile=dist/index.js", "--platform=browser", "--format=esm", last>>

PackageJsonBuildsJsx(a) ==
    LET ts == IsTrue(Get(a, "typescript"))
    IN [name |-> Some(a["name"]),
        version |-> Some("1.0.0"),
        main |-> Some("dist/index.js"),
        scripts |-> Some(
            [build |-> Esbuild(<<"src", "index.jsx">>, "--minify"),
             watch |-> IF ts THEN Esbuild(<<"src", "index.tsx">>, "--watch")
                             ELSE Esbuild(<<"src", "index.jsx">>, "--watch"),
             typeCheck |-> IF ts THEN "tsc --noEmit"
                                 ELSE "echo No type checking needed",
             prepack |-> "npm run build",
             pack |-> "node scripts/pack.js"]),
        dependencies |-> Some({"react", "react-dom"}),
        devDependencies |-> Some(
            {"esbuild", "adm-zip"} \cup
            (IF ts THEN {"typescript", "@types/node", "@types/react",
                         "@types/react-dom"}
                   ELSE {})),
        files |-> Some(<<"dist/index.js", "plugin.json", "README.md">>)]

PackageJson(a) ==
    LET ts == IsTrue(Get(a, "typescript"))
    IN [name |-> Some(a["name"]),
        version |-> Some("1.0.0"),
        main |-> Some("dist/index.js"),
        scripts |-> Some(
            [build |-> IF ts THEN Esbuild(<<"src", "index.tsx">>, "--minify")
                             ELSE Esbuild(<<"src", "index.jsx">>, "--minify"),
             watch |-> IF ts THEN Esbuild(<<"src", "index.tsx">>, "--watch")
                             ELSE Esbuild(<<"src", "index.jsx">>, "--watch"),
             typeCheck |-> IF ts THEN "tsc --noEmit"
                                 ELSE "echo No type checking needed",
             prepack |-> "npm run build",
             pack |-> "node scripts/pack.js"]),
        dependencies |-> Some({"react", "react-dom"}),
        devDependencies |-> Some(
            {"esbuild", "adm-zip"} \cup
            (IF ts THEN {"typescript", "@types/node", "@types/react",
                         "@types/react-dom"}
                   ELSE {})),
        files |-> Some(<<"dist/index.js", "plugin.json", "README.md">>)]

TsConfig ==
    [compilerOptions |-> Some(
        [target |-> "es2020", module |-> "esnext", strict |-> TRUE,
         esModuleInterop |-> TRUE, skipLibCheck |-> TRUE,
         forceConsistentCasingInFileNames |-> TRUE, outDir |-> "./dist",
         declaration |-> TRUE, jsx |-> "react", moduleResolution |-> "node",
         lib |-> <<"dom", "dom.iterable", "esnext">>, noEmit |-> TRUE]),
     include |-> Some(<<"src">>),
     exclude |-> Some(<<"node_modules", "dist">>)]

\* The text is the shared block followed, when typed, by the contracts.
generatePluginTypes(a) ==
    <<"pluginTypeDefs">> \o
    (IF IsTrue(Get(a, "typescript")) THEN <<"capabilityContracts">> ELSE <<>>)

generatePluginSourceNoUnmount(a) ==
    LET ts == IsTrue(Get(a, "typescript"))
    IN [imports |-> IF ts THEN <<"react", "./types">> ELSE <<"react">>,
        annotated |-> ts,
        members |->
            (IF Get(a, "type") # Some("middleware")
                THEN <<"mount">> ELSE <<>>) \o
            (IF Get(a, "type") # Some("ui")
                THEN <<"process">> ELSE <<>>),
        defaultExport |-> "createPlugin"]

\* The text is its import lines, the annotations of the typed variant, and
\* the members of the object literal the factory returns, in order.
generatePluginSource(a) ==
    LET ts == IsTrue(Get(a, "typescript"))
    IN [imports |-> IF ts THEN <<"react", "./types">> ELSE <<"react">>,
        annotated |-> ts,
        members |->
            (IF Get(a, "type") # Some("middleware")
                THEN <<"mount", "unmount">> ELSE <<>>) \o
            (IF Get(a, "type") # Some("ui")
                THEN <<"process">> ELSE <<>>),
        defaultExport |-> "createPlugin"]

(***************************************************************************)
(* createPluginFiles: one label per awaited fs-extra call, in program      *)
(* order.                                                                  *)
(***************************************************************************)
StepOp(l, a) ==
    CASE l = "ensureRoot" ->
            [kind |-> "ensureDir", path |-> PluginDir(a)]
      [] l = "ensureSrc" ->
            [kind |-> "ensureDir", path |-> Join(PluginDir(a), <<"src">>)]
      [] l = "writeManifest" ->
            [kind |-> "writeJSON",
             path |-> Join(PluginDir(a), <<"plugin.json">>)]
      [] l = "ensureScripts" ->
            [kind |-> "ensureDir",
             path |-> Join(PluginDir(a), <<"scripts">>)]
      [] l = "writePack" ->
            [kind |-> "writeFile",
             path |-> Join(PluginDir(a), <<"scripts", "pack.js">>)]
      [] l = "writeReadme" ->
            [kind |-> "writeFile",
             path |-> Join(PluginDir(a), <<"README.md">>)]
      [] l = "writePackageJson" ->
            [kind |-> "writeJSON",
             path |-> Join(PluginDir(a), <<"package.json">>)]
      [] l = "writeTsconfig" ->
            [kind |-> "writeJSON",
             path |-> Join(PluginDir(a), <<"tsconfig.json">>)]
      [] l = "writeTypes" ->
            [kind |-> "writeFile",
             path |-> Join(PluginDir(a), <<"src", "types.ts">>)]
      [] l = "writeIndex" ->
            [kind |-> "writeFile",
             path |-> Join(PluginDir(a), <<"src", IndexFile(a)>>)]

StepContent(l, a) ==
    CASE l = "writeManifest" -> JSONStringify(Manifest(a))
      [] l = "writePack" -> PackJs
      [] l = "writeReadme" -> Readme(a)
      [] l = "writePackageJson" -> JSONStringify(PackageJson(a))
      [] l = "writeTsconfig" -> JSONStringify(TsConfig)
      [] l = "writeTypes" -> generatePluginTypes(a)
      [] l = "writeIndex" -> generatePluginSource(a)

NextPcNoScriptsDir(l, a) ==
    CASE l = "ensureRoot" -> "ensureSrc"
      [] l = "ensureSrc" -> "writeManifest"
      [] l = "writeManifest" -> "writePack"
      [] l = "ensureScripts" -> "writePack"
      [] l = "writePack" -> "writeReadme"
      [] l = "writeReadme" -> "writePackageJson"
      [] l = "writePackageJson" ->
            IF IsTrue(Get(a, "typescript")) THEN "writeTsconfig"
            ELSE "writeIndex"
      [] l = "writeTsconfig" ->
            IF IsTrue(Get(a, "typescript")) THEN "writeTypes"
            ELSE "writeIndex"
      [] l = "writeTypes" -> "writeIndex"
      [] l = "writeIndex" -> "end"

NextPcNoTsconfig(l, a) ==
    CASE l = "ensureRoot" -> "ensureSrc"
      [] l = "ensureSrc" -> "writeManifest"
      [] l = "writeManifest" -> "ensureScripts"
      [] l = "ensureScripts" -> "writePack"
      [] l = "writePack" -> "writeReadme"
      [] l = "writeReadme" -> "writePackageJson"
      [] l = "writePackageJson" ->
            IF IsTrue(Get(a, "typescript")) THEN "writeTypes"
            ELSE "writeIndex"
      [] l = "writeTsconfig" -> "writeTypes"
      [] l = "writeTypes" -> "writeIndex"
      [] l = "writeIndex" -> "end"

\* The two `if (answers.typescript)` blocks decide what follows the write
\* of package.json and of tsconfig.json.
NextPc(l, a) ==
    CASE l = "ensureRoot" -> "ensureSrc"
      [] l = "ensureSrc" -> "writeManifest"
      [] l = "writeManifest" -> "ensureScripts"
      [] l = "ensureScripts" -> "writePack"
      [] l = "writePack" -> "writeReadme"
      [] l = "writeReadme" -> "writePackageJson"
      [] l = "writePackageJson" ->
            IF IsTrue(Get(a, "typescript")) THEN "writeTsconfig"
            ELSE IF IsTrue(Get(a, "typescript")) THEN "writeTypes"
            ELSE "writeIndex"
      [] l = "writeTsconfig" ->
            IF IsTrue(Get(a, "typescript")) THEN "writeTypes"
            ELSE "writeIndex"
      [] l = "writeTypes" -> "writeIndex"
      [] l = "writeIndex" -> "end"

RECURSIVE FilesFrom(_, _)
\* The paths createPluginFiles writes from label l on, every call succeeding.
FilesFrom(l, a) ==
    IF l = "end" THEN {}
    ELSE (IF StepOp(l, a).kind = "ensureDir" THEN {} ELSE {StepOp(l, a).path})
         \cup FilesFrom(NextPc(l, a), a)

EmittedFiles(a) == FilesFrom("ensureRoot", a)

(***************************************************************************)
(* The fs-extra calls.                                                     *)
(***************************************************************************)
\* mkdir -p: every missing directory on the way to p is made, nothing that
\* exists is touched.
EnsureDir(ds, fs, p) ==
    [dirs |-> ds \cup Prefixes(p), files |-> fs]

\* writeFile and writeJSON do not make the parent directory.
CanWrite(ds, p) == Parent(p) \in ds

WriteFile(ds, fs, p, c) ==
    [dirs |-> ds, files |-> (p :> c) @@ fs]

AwaitedNever(fl) == TRUE

\* `await`: the function resumes only when the call it started has settled.
Awaited(fl) == fl = {}

OnThrowSwallowed == "emit"

\* Nothing in createPluginFiles or the command action catches: a rejected
\* call ends the run.
OnThrow == "failed"

SetStatus(lg, l, st) ==
    [i \in 1..Len(lg) |->
        IF lg[i].label = l THEN [lg[i] EXCEPT !.status = st] ELSE lg[i]]

(***************************************************************************)
(* The run.                                                                *)
(***************************************************************************)
Init ==
    /\ phase = "prompt"
    /\ qi = 1
    /\ asked = <<Questions[1]>>
    /\ answers = EmptyObject
    /\ lastError = ""
    /\ cancelled = FALSE
    /\ pc = "ensureRoot"
    /\ inflight = {}
    /\ log = <<>>
    /\ dirs = {}
    /\ files = EmptyObject

\* The validator rejects the input: the message is shown, the question stays.
Reprompt(input) ==
    /\ phase = "prompt"
    /\ ~Validate(Questions[qi], Filter(Questions[qi], input))
    /\ lastError' = NameErrorMessage
    /\ UNCHANGED <<phase, qi, asked, answers, cancelled,
                   pc, inflight, log, dirs, files>>

\* The input is accepted: it is stored, and inquirer asks the next question
\* that applies or, after the last, resolves and createPluginFiles is called.
Answer(input) ==
    /\ phase = "prompt"
    /\ Validate(Questions[qi], Filter(Questions[qi], input))
    /\ answers' = (Questions[qi] :> Filter(Questions[qi], input)) @@ answers
    /\ lastError' = ""
    /\ qi' = NextQuestion(qi, answers')
    /\ IF qi' <= Len(Questions)
          THEN /\ asked' = Append(asked, Questions[qi'])
               /\ phase' = "prompt"
          ELSE /\ asked' = asked
               /\ phase' = "emit"
    /\ UNCHANGED <<cancelled, pc, inflight, log, dirs, files>>

\* The user interrupts the pending question: the prompt rejects.
Cancel ==
    /\ phase = "prompt"
    /\ cancelled' = TRUE
    /\ phase' = "aborted"
    /\ UNCHANGED <<qi, asked, answers, lastError,
                   pc, inflight, log, dirs, files>>

\* createPluginFiles reaches its next fs-extra call and awaits it.
Start ==
    /\ phase = "emit"
    /\ pc # "end"
    /\ Awaited(inflight)
    /\ inflight' = inflight \cup {pc}
    /\ log' = Append(log, [label |-> pc,
                           kind |-> StepOp(pc, answers).kind,
                           path |-> StepOp(pc, answers).path,
                           status |-> "pending"])
    /\ pc' = NextPc(pc, answers)
    /\ UNCHANGED <<phase, qi, asked, answers, lastError, cancelled,
                   dirs, files>>

\* A call in flight resolves.
CompleteOk(l) ==
    /\ phase = "emit"
    /\ l \in inflight
    /\ LET op == StepOp(l, answers)
           fsys == IF op.kind = "ensureDir"
                      THEN EnsureDir(dirs, files, op.path)
                      ELSE WriteFile(dirs, files, op.path,
                                     StepContent(l, answers))
       IN /\ op.kind # "ensureDir" => CanWrite(dirs, op.path)
          /\ dirs' = fsys.dirs
          /\ files' = fsys.files
    /\ inflight' = inflight \ {l}
    /\ log' = SetStatus(log, l, "ok")
    /\ phase' = IF pc = "end" /\ inflight' = {} THEN "done" ELSE "emit"
    /\ UNCHANGED <<qi, asked, answers, lastError, cancelled, pc>>

\* A call in flight rejects; the disk is as it was.
CompleteFail(l) ==
    /\ phase = "emit"
    /\ l \in inflight
    /\ inflight' = inflight \ {l}
    /\ log' = SetStatus(log, l, "failed")
    /\ phase' = OnThrow
    /\ UNCHANGED <<qi, asked, answers, lastError, cancelled, pc, dirs, files>>

Labels == {"ensureRoot", "ensureSrc", "writeManifest", "ensureScripts",
           "writePack", "writeReadme", "writePackageJson", "writeTsconfig",
           "writeTypes", "writeIndex"}

\* What the user can enter now: an input of the pending question, if any.
PendingInputs == IF phase = "prompt" THEN Inputs(Questions[qi]) ELSE {}

Next ==
    \/ \E input \in PendingInputs : Reprompt(input)
    \/ \E input \in PendingInputs : Answer(input)
    \/ Cancel
    \/ Start
    \/ \E l \in Labels : CompleteOk(l)
    \/ \E l \in Labels : CompleteFail(l)

Spec == Init /\ [][Next]_vars

(***************************************************************************)
(* Vocabulary of the properties.                                           *)
(***************************************************************************)
InSeq(x, s) == \E i \in 1..Len(s) : s[i] = x

\* A path below the project root, without the root.
Rel(p) == Tail(p)

RelFiles == {Rel(p) : p \in DOMAIN files}

Typed == IsTrue(Get(answers, "typescript"))

Category == answers["type"]

EntryPaths ==
    {p \in DOMAIN files :
        Len(p) = 3 /\ p[2] = "src" /\ p[3] \in {"index.tsx", "index.jsx"}}

ManifestPaths == {p \in DOMAIN files : Rel(p) = <<"plugin.json">>}

\* The order of operations the specification states, root-relative.
ExpectedOrder(ts) ==
    <<[kind |-> "ensureDir", rel |-> <<>>],
      [kind |-> "ensureDir", rel |-> <<"src">>],
      [kind |-> "writeJSON", rel |-> <<"plugin.json">>],
      [kind |-> "ensureDir", rel |-> <<"scripts">>],
      [kind |-> "writeFile", rel |-> <<"scripts", "pack.js">>],
      [kind |-> "writeFile", rel |-> <<"README.md">>],
      [kind |-> "writeJSON", rel |-> <<"package.json">>]>>
    \o (IF ts THEN <<[kind |-> "writeJSON", rel |-> <<"tsconfig.json">>],
                     [kind |-> "writeFile", rel |-> <<"src", "types.ts">>]>>
              ELSE <<>>)
    \o <<[kind |-> "writeFile",
          rel |-> <<"src", IF ts THEN "index.tsx" ELSE "index.jsx">>]>>

\* The file set the specification states, root-relative.
ExpectedFiles(ts) ==
    {<<"plugin.json">>, <<"scripts", "pack.js">>, <<"README.md">>,
     <<"package.json">>}
    \cup (IF ts THEN {<<"tsconfig.json">>, <<"src", "types.ts">>,
                      <<"src", "index.tsx">>}
                ELSE {<<"src", "index.jsx">>})

ArtifactPresent(kind, path) ==
    IF kind = "ensureDir" THEN path \in dirs ELSE path \in DOMAIN files

Applicable(q) ==
    CASE q = "slots" -> Get(answers, "type") # Some("middleware")
      [] q = "middlewarePoints" -> Get(answers, "type") # Some("ui")
      [] OTHER -> TRUE

Rank(q) == CHOOSE i \in 1..Len(Questions) : Questions[i] = q

WithTyping(a, b) == [k \in DOMAIN a |-> IF k = "typescript" THEN b ELSE a[k]]

\* The files of the run with the given typing choice and otherwise the
\* answers of this run: the files on disk when that is this run's choice.
RunFiles(b) ==
    IF Typed = b THEN RelFiles
    ELSE {Rel(p) : p \in EmittedFiles(WithTyping(answers, b))}

(***************************************************************************)
(* C1: the manifest written to plugin.json has `slots` iff the category is *)
(* not middleware and `middlewarePoints` iff the category is not ui; a     *)
(* field that is present holds the selected set.                           *)
(***************************************************************************)
C1_ManifestFields ==
    \A p \in ManifestPaths :
        LET m == files[p]
        IN /\ ("slots" \in DOMAIN m) <=> (Category # "middleware")
           /\ ("middlewarePoints" \in DOMAIN m) <=> (Category # "ui")
           /\ "slots" \in DOMAIN m => Some(m["slots"]) = Get(answers, "slots")
           /\ "middlewarePoints" \in DOMAIN m =>
                 Some(m["middlewarePoints"]) = Get(answers, "middlewarePoints")

C1_Witness ==
    /\ ManifestPaths # {}
    /\ Category = "hybrid"
    /\ answers["slots"] = {"app-header"}
    /\ answers["middlewarePoints"] = {}

(***************************************************************************)
(* C2: the object the factory of the entry file returns has mount and      *)
(* unmount iff the category is not middleware and process iff it is not    *)
(* ui, whatever the typing choice.                                         *)
(***************************************************************************)
C2_CapabilitySurface ==
    \A p \in EntryPaths :
        LET ms == files[p].members
        IN /\ InSeq("mount", ms) <=> (Category # "middleware")
           /\ InSeq("unmount", ms) <=> (Category # "middleware")
           /\ InSeq("process", ms) <=> (Category # "ui")

C2_Witness ==
    /\ EntryPaths # {}
    /\ Category = "hybrid"
    /\ ~Typed

(***************************************************************************)
(* C3: when the k-th operation fails, no later operation is attempted,     *)
(* what the operations before k made is still there, and what operation k  *)
(* and the later ones would make is absent.                                *)
(***************************************************************************)
C3_FailFastNoRollback ==
    \A k \in 1..Len(log) :
        log[k].status = "failed" =>
            /\ k = Len(log)
            /\ inflight = {}
            /\ phase = "failed"
            /\ \A i \in 1..(k-1) :
                  /\ log[i].status = "ok"
                  /\ ArtifactPresent(log[i].kind, log[i].path)
            /\ \A j \in k..Len(ExpectedOrder(Typed)) :
                  ~ArtifactPresent(ExpectedOrder(Typed)[j].kind,
                                   PluginDir(answers)
                                       \o ExpectedOrder(Typed)[j].rel)

C3_Witness ==
    /\ phase = "failed"
    /\ Len(log) = 5
    /\ log[5].status = "failed"
    /\ <<"plugin.json">> \in RelFiles

(***************************************************************************)
(* C4: a cancelled run has created no directory and written no file, and   *)
(* no file-system operation happens before every applicable question has   *)
(* an answer.                                                              *)
(***************************************************************************)
C4_NoEmissionBeforeAnswers ==
    /\ cancelled => log = <<>> /\ dirs = {} /\ DOMAIN files = {}
    /\ (log # <<>> \/ dirs # {} \/ DOMAIN files # {}) =>
          \A i \in 1..Len(Questions) :
              Applicable(Questions[i]) => Questions[i] \in DOMAIN answers

C4_Witness ==
    /\ cancelled
    /\ phase = "aborted"
    /\ asked = <<"name", "type", "slots", "middlewarePoints">>

(***************************************************************************)
(* C5: a fully successful run has written, under the project root,         *)
(* plugin.json, scripts/pack.js, README.md, package.json and one entry     *)
(* file, plus tsconfig.json and src/types.ts iff typed; the entry file is  *)
(* src/index.tsx iff typed, else src/index.jsx: 7 files typed, 5 untyped.  *)
(***************************************************************************)
C5_FileSet ==
    phase = "done" =>
        /\ \A p \in DOMAIN files : SubSeq(p, 1, 1) = PluginDir(answers)
        /\ RelFiles = ExpectedFiles(Typed)
        /\ Cardinality(DOMAIN files) = IF Typed THEN 7 ELSE 5
        /\ Cardinality(EntryPaths) = 1

C5_Witness ==
    /\ phase = "done"
    /\ Typed
    /\ Category = "ui"

(***************************************************************************)
(* C6, as stated: the files emitted with typing on are a strict superset   *)
(* of the files emitted with typing off, for the same other answers.       *)
(***************************************************************************)
C6_StrictSuperset ==
    phase = "done" =>
        /\ RunFiles(FALSE) \subseteq RunFiles(TRUE)
        /\ RunFiles(FALSE) # RunFiles(TRUE)

(***************************************************************************)
(* C6, amended: the files emitted with typing on are those emitted with    *)
(* typing off with src/index.jsx replaced by src/index.tsx, plus           *)
(* tsconfig.json and src/types.ts; every other untyped file is a typed one.*)
(***************************************************************************)
C6_SupersetButEntry ==
    phase = "done" =>
        /\ RunFiles(FALSE) \ RunFiles(TRUE) = {<<"src", "index.jsx">>}
        /\ RunFiles(TRUE) \ RunFiles(FALSE) =
              {<<"tsconfig.json">>, <<"src", "types.ts">>,
               <<"src", "index.tsx">>}

C6_Witness ==
    /\ phase = "done"
    /\ Typed
    /\ Category = "middleware"

(***************************************************************************)
(* C7: the questions are asked one at a time in the order name, type,      *)
(* slots, middlewarePoints, typescript; slots is asked iff the category    *)
(* answered is not middleware, middlewarePoints iff it is not ui; name,    *)
(* type and typescript are asked in every run that is not cancelled.       *)
(***************************************************************************)
C7_QuestionOrder ==
    /\ \A i, j \in 1..Len(asked) :
          i < j => Rank(asked[i]) < Rank(asked[j])
    /\ \A i \in 1..(Len(asked) - 1) : asked[i] \in DOMAIN answers
    /\ \A q \in DOMAIN answers : InSeq(q, asked)
    /\ InSeq("slots", asked) => Category # "middleware"
    /\ InSeq("middlewarePoints", asked) => Category # "ui"
    /\ (\E i \in 1..Len(asked) : Rank(asked[i]) > Rank("slots")) =>
          (InSeq("slots", asked) <=> Category # "middleware")
    /\ InSeq("typescript", asked) =>
          (InSeq("middlewarePoints", asked) <=> Category # "ui")
    /\ (~cancelled /\ phase # "prompt") =>
          /\ InSeq("name", asked)
          /\ InSeq("type", asked)
          /\ InSeq("typescript", asked)

C7_Witness ==
    /\ phase = "emit"
    /\ asked = <<"name", "type", "middlewarePoints", "typescript">>

(***************************************************************************)
(* C8: at most one file-system operation is in flight, each starts only    *)
(* after the one before it has completed, and the operations occur in the  *)
(* fixed order root, src, plugin.json, scripts, scripts/pack.js,           *)
(* README.md, package.json, then tsconfig.json and src/types.ts when       *)
(* typed, then the entry file.                                             *)
(***************************************************************************)
C8_SequentialOrder ==
    /\ Cardinality(inflight) <= 1
    /\ \A i \in 1..(Len(log) - 1) : log[i].status = "ok"
    /\ Len(log) <= Len(ExpectedOrder(Typed))
    /\ \A i \in 1..Len(log) :
          /\ log[i].kind = ExpectedOrder(Typed)[i].kind
          /\ log[i].path = PluginDir(answers) \o ExpectedOrder(Typed)[i].rel
    /\ phase = "done" => Len(log) = Len(ExpectedOrder(Typed))

C8_Witness ==
    /\ phase = "done"
    /\ Typed
    /\ Len(log) = 10

(***************************************************************************)
(* C9: every file write is preceded in the run by a completed ensureDir of *)
(* its parent directory, and an ensureDir leaves what exists as it is: it  *)
(* adds only the missing directories on the way to its path, so that on a  *)
(* directory that exists it changes nothing.                               *)
(***************************************************************************)
C9_ParentEnsured ==
    \A i \in 1..Len(log) :
        log[i].kind # "ensureDir" =>
            \E j \in 1..(i-1) :
                /\ log[j].kind = "ensureDir"
                /\ log[j].path = Parent(log[i].path)
                /\ log[j].status = "ok"

C9_EnsureStep ==
    \A i \in 1..Len(log) :
        (/\ log[i].kind = "ensureDir"
         /\ log[i].status = "pending"
         /\ Len(log') = Len(log)
         /\ log'[i].status = "ok") =>
            /\ files' = files
            /\ dirs \subseteq dirs'
            /\ dirs' \ dirs = Prefixes(log[i].path) \ dirs
            /\ log[i].path \in dirs'
            /\ Prefixes(log[i].path) \subseteq dirs => dirs' = dirs

C9_WriteStep ==
    \A i \in 1..Len(log) :
        (/\ log[i].kind # "ensureDir"
         /\ log[i].status = "pending"
         /\ Len(log') = Len(log)
         /\ log'[i].status = "ok") =>
            /\ Parent(log[i].path) \in dirs
            /\ dirs' = dirs

C10_TypingConsistent ==
    phase = "done" =>
        LET pkg == files[PluginDir(answers) \o <<"package.json">>]
        IN /\ EntryPaths # {}
           /\ \A p \in EntryPaths :
                 /\ pkg["scripts"]["build"][2] = Rel(p)
                 /\ pkg["scripts"]["watch"][2] = Rel(p)
                 /\ Rel(p) = <<"src", IF Typed THEN "index.tsx"
                                               ELSE "index.jsx">>
                 /\ InSeq("./types", files[p].imports)
                        <=> <<"src", "types.ts">> \in RelFiles

C10_Witness ==
    /\ phase = "done"
    /\ ~Typed
    /\ Category = "hybrid"

====
